---- MODULE Spec2Model ----
(***************************************************************************)
(* A model of musiccut's segment/export pipeline (src/main.py):            *)
(*   - the interval model: VideoItem.normalize_segments, keep_segments,    *)
(*     total_removed, over integer seconds;                                *)
(*   - the trim panel's spin boxes and its add button;                     *)
(*   - the plan builder of MainWindow._start_export: the steps and the     *)
(*     cleanup list of an export;                                          *)
(*   - the two job runners, FFmpegWorker and MultiStepFFmpegWorker, each a *)
(*     thread whose steps interleave with the main thread's handlers and   *)
(*     with the external ffmpeg process;                                   *)
(*   - the orchestrator part of MainWindow: the single _ffmpeg_thread slot,*)
(*     _run_multistep, _run_ffmpeg, _cancel_trim and _on_ffmpeg_finished.  *)
(* The specifications share the variables: IntervalSpec exercises the      *)
(* interval model on bounded inputs, TrimSpec the trim panel, PlanSpec the *)
(* plan builder, Spec one export of either runner (LiveSpec: under fair    *)
(* scheduling) and OrchSpec a series of export requests.                   *)
(***************************************************************************)
EXTENDS Integers, Sequences, FiniteSets, TLC

VARIABLES
    video,          \* the VideoItem under edit: [duration, remove_segments]
    input,          \* the remove_segments list the video was given
    done,           \* which interval operations have been applied to video
    keeps,          \* the list keep_segments() last returned
    removed,        \* the number total_removed() last returned
    workers,        \* export id -> runner object (and its thread's position)
    ffmpeg_thread,  \* MainWindow._ffmpeg_thread: an export id, 0 for None
    nexports,       \* number of export requests made so far
    files,          \* the files that exist on disk
    queue,          \* finished signals emitted and not yet handled
    notice,         \* the dialog shown last
    limit,          \* how many export requests the user makes in all
    mainpc,         \* main thread: 0, or the runner it is cancelling
    project,        \* MainWindow._project.videos: the list of VideoItems
    trim            \* the TrimPanel: the position of its video in the project
                    \* (0 for None), its spin boxes, the handler run last and
                    \* whether that handler emitted segmentsChanged

rvars == <<workers, ffmpeg_thread, nexports, files, queue, notice, limit, mainpc>>
rvars_but_notice == <<workers, ffmpeg_thread, nexports, files, queue, limit, mainpc>>
pvars == <<project, trim>>
vars == <<video, input, done, keeps, removed,
          workers, ffmpeg_thread, nexports, files, queue, notice, limit, mainpc,
          project, trim>>

----------------------------------------------------------------------------
(* Bounds of the model. *)

MaxDuration == 3
MaxSegs == 2

\* s[-1]
Last(s) == s[Len(s)]

Max(a, b) == IF a >= b THEN a ELSE b
Min(a, b) == IF a <= b THEN a ELSE b

----------------------------------------------------------------------------
(* The interval model. *)

\* TimeRange: start and end in integer seconds; user-adjustable endpoints may
\* be negative, beyond the duration, or reversed.
TimeRange == [start : (0 - 1)..MaxDuration, end : 0..(MaxDuration + 1)]

\* VideoItem.duration as probe_media_info returns it: max(0, ...), 0 if unknown
Durations == 0..MaxDuration

RangeLists == UNION {[1..n -> TimeRange] : n \in 0..MaxSegs}

\* TimeRange.duration
RangeDuration(r) == Max(0, r.end - r.start)

\* dataclass(order=True): ranges compare as the tuples (start, end)
RangeLess(a, b) == \/ a.start < b.start
                   \/ a.start = b.start /\ a.end < b.end

RECURSIVE InsertSorted(_, _)
InsertSorted(r, s) ==
    IF s = <<>> THEN <<r>>
    ELSE IF RangeLess(r, Head(s)) THEN <<r>> \o s
    ELSE <<Head(s)>> \o InsertSorted(r, Tail(s))

\* sorted(self.remove_segments): a stable ascending sort
RECURSIVE SortRanges(_)
SortRanges(s) ==
    IF s = <<>> THEN <<>>
    ELSE InsertSorted(s[Len(s)], SortRanges(SubSeq(s, 1, Len(s) - 1)))

\* max(0, min(x, self.duration))
Clip(x, D) == Max(0, Min(x, D))

\* cleaned[-1].end = max(cleaned[-1].end, end)
MergeIntoLast(cleaned, end) ==
    [cleaned EXCEPT ![Len(cleaned)].end = Max(@, end)]

\* Mergeable with < for <=: a range that only touches the last one is kept apart
MergeableOverlapOnly(cleaned, start) ==
    cleaned # <<>> /\ start < cleaned[Len(cleaned)].end

\* start <= cleaned[-1].end: the range overlaps or touches the last one kept
Mergeable(cleaned, start) ==
    cleaned # <<>> /\ start <= cleaned[Len(cleaned)].end

\* the loop of normalize_segments over the sorted ranges
RECURSIVE NormalizeLoop(_, _, _)
NormalizeLoop(sorted, cleaned, D) ==
    IF sorted = <<>> THEN cleaned
    ELSE LET segment == Head(sorted)
             start == Clip(segment.start, D)
             end == Clip(segment.end, D)
         IN  IF end <= start
             THEN NormalizeLoop(Tail(sorted), cleaned, D)
             ELSE IF Mergeable(cleaned, start)
             THEN NormalizeLoop(Tail(sorted), MergeIntoLast(cleaned, end), D)
             ELSE NormalizeLoop(Tail(sorted),
                                Append(cleaned, [start |-> start, end |-> end]), D)

\* normalize_segments returning at once, the list untouched, if the duration
\* is unknown
normalize_segments_unknown_untouched(v) ==
    IF v.duration <= 0
    THEN v
    ELSE [v EXCEPT !.remove_segments =
              NormalizeLoop(SortRanges(v.remove_segments), <<>>, v.duration)]

\* VideoItem.normalize_segments: the video after the call
normalize_segments(v) ==
    IF v.duration <= 0
    THEN [v EXCEPT !.remove_segments = <<>>]
    ELSE [v EXCEPT !.remove_segments =
              NormalizeLoop(SortRanges(v.remove_segments), <<>>, v.duration)]

\* the loop of keep_segments over the normalized delete ranges
RECURSIVE KeepLoop(_, _, _, _)
KeepLoop(segs, cursor, result, D) ==
    IF segs = <<>>
    THEN IF cursor < D
         THEN Append(result, [start |-> cursor, end |-> D])
         ELSE result
    ELSE LET segment == Head(segs)
             r2 == IF segment.start > cursor
                   THEN Append(result, [start |-> cursor, end |-> segment.start])
                   ELSE result
         IN  KeepLoop(Tail(segs), Max(cursor, segment.end), r2, D)

\* keep_segments without its call of normalize_segments
keep_segments_unnormalized(v) ==
    IF v.duration <= 0 THEN <<>>
    ELSE KeepLoop(v.remove_segments, 0, <<>>, v.duration)

\* VideoItem.keep_segments: the list returned (the video is normalized first)
keep_segments(v) ==
    IF v.duration <= 0 THEN <<>>
    ELSE KeepLoop(normalize_segments(v).remove_segments, 0, <<>>, v.duration)

RECURSIVE SumDurations(_)
SumDurations(s) ==
    IF s = <<>> THEN 0 ELSE RangeDuration(Head(s)) + SumDurations(Tail(s))

\* total_removed without its call of normalize_segments
total_removed_unnormalized(v) == SumDurations(v.remove_segments)

\* VideoItem.total_removed: the number returned (the video is normalized first)
total_removed(v) == SumDurations(normalize_segments(v).remove_segments)

----------------------------------------------------------------------------
(* Operations on the video under edit. *)

IvNormalize ==
    /\ video' = normalize_segments(video)
    /\ done' = done \cup {"normalize"}
    /\ UNCHANGED <<input, keeps, removed>>

IvKeepSegments ==
    /\ keeps' = keep_segments(video)
    /\ video' = normalize_segments(video)
    /\ done' = done \cup {"keep"}
    /\ UNCHANGED <<input, removed>>

IvTotalRemoved ==
    /\ removed' = total_removed(video)
    /\ video' = normalize_segments(video)
    /\ done' = done \cup {"removed"}
    /\ UNCHANGED <<input, keeps>>

----------------------------------------------------------------------------
(* Files, jobs and signals of an export. *)

MaxExports == 2
MaxSteps == 2
MaxWeight == 1
MaxLines == 2
MaxStamp == 1

MaxVideos == 2
MaxTicks == 3
TickSeconds == 10

\* weight of the concatenation job
ConcatWeight == 1

\* target_w, target_h = 1280, 720 and fps_target = 30
DefaultWidth == 1280
DefaultHeight == 720
FpsTarget == 30

\* the final output path, the concat list file of export e and the clip of
\* the k_idx-th keep segment of the v_idx-th video of export e, positions
\* counted from 1 (tempfile.mkdtemp gives each export its own directory)
Dest == <<0, 0, 0>>
ListFile(e) == <<e, 0, 0>>
ClipFile(e, v_idx, k_idx) == <<e, v_idx, k_idx>>

\* the weights a MultiStepFFmpegWorker may be constructed with (at least one
\* step: _start_export always appends the concatenation step)
AnyWeights == UNION {[1..n -> 0..MaxWeight] : n \in 1..MaxSteps}

\* steps: one job per weight, the last one writing the final output
StepsOf(e, ws) ==
    [k \in 1..Len(ws) |->
        [weight |-> ws[k],
         out |-> IF k = Len(ws) THEN Dest ELSE ClipFile(e, 1, k)]]

\* the cleanup list without the concat list file
ManifestOfClipsOnly(e, steps) == [k \in 1..(Len(steps) - 1) |-> steps[k].out]

\* temp_files + [list_file], the temp files being the outputs of all steps
\* but the last
ManifestOf(e, steps) ==
    [k \in 1..Len(steps) |-> IF k < Len(steps) THEN steps[k].out ELSE ListFile(e)]

\* FFmpegTask: the window to cut, in seconds
Tasks == [start_seconds : {0}, end_seconds : {0, MaxStamp + 1}]

\* an output line of ffmpeg: with or without a time=h:m:s stamp
NoStampLine == [stamp |-> FALSE, h |-> 0, m |-> 0, s |-> 0]
Lines == {NoStampLine} \cup [stamp : {TRUE}, h : {0}, m : {0}, s : 0..MaxStamp]

ExitCodes == {0, 1}
\* the exit code of a process ended by terminate()
SigTerm == 0 - 15

NoProc == [state |-> "none", code |-> 0, term |-> FALSE, out |-> Dest]

NoTask == [start_seconds |-> 0, end_seconds |-> 0]

NoWorker ==
    [kind |-> "none", pc |-> "none", cancel |-> FALSE,
     steps |-> <<>>, cleanup |-> <<>>, task |-> NoTask,
     idx |-> 0, acc |-> 0, proc |-> NoProc, handle |-> FALSE,
     line |-> NoStampLine, code |-> 0, nread |-> 0, launched |-> 0,
     events |-> <<>>]

\* the signals a runner emits; a ratio is the fraction num/den
Progress(n, d) ==
    [type |-> "progress", ok |-> FALSE, msg |-> "", num |-> n, den |-> d,
     step |-> 0, code |-> 0]
Message(kind) ==
    [type |-> "message", ok |-> FALSE, msg |-> kind, num |-> 0, den |-> 1,
     step |-> 0, code |-> 0]
Finished(ok, msg, step, code) ==
    [type |-> "finished", ok |-> ok, msg |-> msg, num |-> 0, den |-> 1,
     step |-> step, code |-> code]

Emit(wr, ev) == [wr EXCEPT !.events = Append(@, ev)]

\* min(1.0, max(0.0, x / d)) for x >= 0 and d > 0, as a fraction
ClampRatio(x, d) == IF x >= d THEN <<1, 1>> ELSE <<x, d>>

RECURSIVE SumWeights(_)
SumWeights(steps) ==
    IF steps = <<>> THEN 0 ELSE Head(steps).weight + SumWeights(Tail(steps))

\* sum(weight for _, weight in self._steps) or 1.0
TotalWeight(steps) ==
    IF SumWeights(steps) = 0 THEN 1 ELSE SumWeights(steps)

\* a cleanup that removes nothing
DoCleanupSkipped(fs, cleanup) == fs

\* MultiStepFFmpegWorker._do_cleanup: the files left on disk after it
DoCleanup(fs, cleanup) ==
    {f \in fs : ~ \E i \in DOMAIN cleanup : cleanup[i] = f}

\* FFmpegWorker._parse_progress
ParseProgress(line, duration_seconds) ==
    IF ~line.stamp
    THEN [some |-> FALSE, ratio |-> <<0, 1>>]
    ELSE LET current_seconds == line.h * 3600 + line.m * 60 + line.s
         IN  [some |-> TRUE,
              ratio |-> ClampRatio(current_seconds, Max(1, duration_seconds))]

\* subprocess.Popen(args, ...): the process just launched, writing to out
Launched(out) == [state |-> "running", code |-> 0, term |-> FALSE, out |-> out]

\* proc.terminate(): a signal to a process that has not been reaped
Terminate(p) == IF p.state = "running" THEN [p EXCEPT !.term = TRUE] ELSE p

\* what subprocess.Popen may do: launch, or raise FileNotFoundError or
\* another OSError
PopenOutcomes == {"ok", "notfound", "oserror"}

----------------------------------------------------------------------------
(* The orchestrator: handlers of MainWindow, run by the main thread. *)

\* the single-flight guard left out
BusyNever == FALSE

\* if self._ffmpeg_thread is not None: the single-flight guard
Busy == ffmpeg_thread # 0

\* MainWindow._run_multistep(steps, cleanup), as export request e
run_multistep(e, steps, cleanup) ==
    IF Busy
    THEN /\ notice' = "already_running"
         /\ UNCHANGED <<workers, ffmpeg_thread, queue>>
    ELSE /\ workers' = [workers EXCEPT ![e] =
                [NoWorker EXCEPT !.kind = "multi", !.pc = "start",
                                 !.steps = steps, !.cleanup = cleanup]]
         /\ ffmpeg_thread' = e
         /\ UNCHANGED <<notice, queue>>

\* the loop over the videos for the target resolution: the largest width and
\* the largest height seen so far (a None counts as 0)
RECURSIVE TargetLoop(_, _, _)
TargetLoop(videos, target_w, target_h) ==
    IF videos = <<>> THEN <<target_w, target_h>>
    ELSE LET v == Head(videos)
         IN  TargetLoop(Tail(videos),
                        IF v.width # 0 /\ v.width > target_w
                        THEN v.width ELSE target_w,
                        IF v.height # 0 /\ v.height > target_h
                        THEN v.height ELSE target_h)

\* the target resolution without the fall-back to the default
TargetGeometryNoDefault(videos) == TargetLoop(videos, 0, 0)

\* target_w, target_h after the loop and the fall-back to the default
TargetGeometry(videos) ==
    LET t == TargetLoop(videos, 0, 0)
    IN  IF t[1] <= 0 \/ t[2] <= 0 THEN <<DefaultWidth, DefaultHeight>> ELSE t

\* transcode decided by the video a segment comes from having a resolution
TranscodeIfProbed(videos) == \E i \in DOMAIN videos : videos[i].width # 0

\* transcode = len(self._project.videos) > 1
Transcode(videos) == Len(videos) > 1

\* the step of a keep segment: the ffmpeg arguments that vary (mode, -ss, -to,
\* -i, the scale/pad/fps filter, the output clip) and the weight
ExtractJob(e, v_idx, k_idx, keep, transcode, target) ==
    [mode |-> IF transcode THEN "transcode" ELSE "copy",
     video |-> v_idx,
     ss |-> keep.start,
     to |-> keep.end,
     w |-> IF transcode THEN target[1] ELSE 0,
     h |-> IF transcode THEN target[2] ELSE 0,
     fps |-> IF transcode THEN FpsTarget ELSE 0,
     list |-> <<>>,
     out |-> ClipFile(e, v_idx, k_idx),
     weight |-> RangeDuration(keep)]

\* the concatenation step: its input is the list file, whose lines name
\* temp_files in order; it writes the final output
ConcatJob(e, temp_files) ==
    [mode |-> "concat", video |-> 0, ss |-> 0, to |-> 0,
     w |-> 0, h |-> 0, fps |-> 0,
     list |-> temp_files,
     out |-> Dest,
     weight |-> ConcatWeight]

\* the steps of the keep segments of one video, last segment first
KeepJobsReversed(e, v_idx, ks, transcode, target) ==
    [k \in 1..Len(ks) |->
        ExtractJob(e, v_idx, k, ks[Len(ks) + 1 - k], transcode, target)]

\* for k_idx, keep in enumerate(keeps): the steps of one video
KeepJobs(e, v_idx, ks, transcode, target) ==
    [k \in 1..Len(ks) |-> ExtractJob(e, v_idx, k, ks[k], transcode, target)]

\* for v_idx, video in enumerate(self._project.videos): the steps of the
\* videos from v_idx on
RECURSIVE VideoLoop(_, _, _, _, _)
VideoLoop(e, videos, v_idx, transcode, target) ==
    IF v_idx > Len(videos) THEN <<>>
    ELSE KeepJobs(e, v_idx, keep_segments(videos[v_idx]), transcode, target)
         \o VideoLoop(e, videos, v_idx + 1, transcode, target)

\* steps as _start_export hands them to _run_multistep
BuildSteps(e, videos) ==
    LET jobs == VideoLoop(e, videos, 1, Transcode(videos), TargetGeometry(videos))
        temp_files == [k \in DOMAIN jobs |-> jobs[k].out]
    IN  Append(jobs, ConcatJob(e, temp_files))

\* MainWindow._start_export, the output path being set: a warning if the
\* project is empty; else the temp directory and the concat list file are
\* made, the steps built (keep_segments normalizes each video) and handed to
\* _run_multistep
start_export ==
    /\ mainpc = 0
    /\ nexports < limit
    /\ LET e == nexports + 1
           steps == BuildSteps(e, project)
       IN  /\ nexports' = e
           /\ IF project = <<>>
              THEN /\ notice' = "no_videos"
                   /\ UNCHANGED <<workers, ffmpeg_thread, queue, files, project>>
              ELSE /\ files' = files \cup {ListFile(e)}
                   /\ project' = [i \in DOMAIN project |->
                                     normalize_segments(project[i])]
                   /\ run_multistep(e, steps, ManifestOf(e, steps))
    /\ UNCHANGED <<limit, mainpc, video, input, done, keeps, removed, trim>>

\* a MultiStepFFmpegWorker built from any steps and handed to _run_multistep
RunMultistepCall(ws) ==
    /\ mainpc = 0
    /\ nexports < limit
    /\ LET e == nexports + 1
       IN  /\ nexports' = e
           /\ run_multistep(e, StepsOf(e, ws), ManifestOf(e, StepsOf(e, ws)))
    /\ UNCHANGED <<files, limit, mainpc, video, input, done, keeps, removed, pvars>>

\* MainWindow._run_ffmpeg(task), as export request e
run_ffmpeg(task) ==
    /\ mainpc = 0
    /\ nexports < limit
    /\ LET e == nexports + 1
       IN  /\ nexports' = e
           /\ IF Busy
              THEN /\ notice' = "already_running"
                   /\ UNCHANGED <<workers, ffmpeg_thread>>
              ELSE /\ workers' = [workers EXCEPT ![e] =
                          [NoWorker EXCEPT !.kind = "fine", !.pc = "start",
                                           !.task = task]]
                   /\ ffmpeg_thread' = e
                   /\ UNCHANGED notice
    /\ UNCHANGED <<files, queue, limit, mainpc, video, input, done, keeps, removed, pvars>>

\* MainWindow._cancel_trim: request_cancel() on the active runner.  For a
\* MultiStepFFmpegWorker that is the flag alone; for an FFmpegWorker the flag
\* is set here and the process is looked at in CancelTerminate.
cancel_trim ==
    /\ mainpc = 0
    /\ ffmpeg_thread # 0
    /\ workers' = [workers EXCEPT ![ffmpeg_thread].cancel = TRUE]
    /\ mainpc' = IF workers[ffmpeg_thread].kind = "fine" THEN ffmpeg_thread ELSE 0
    /\ UNCHANGED <<ffmpeg_thread, nexports, files, queue, notice, limit,
                   video, input, done, keeps, removed, pvars>>

\* FFmpegWorker.request_cancel, after the flag:
\* if self._process and self._process.poll() is None: self._process.terminate()
CancelTerminate ==
    /\ mainpc # 0
    /\ workers' = [workers EXCEPT ![mainpc].proc =
                      IF workers[mainpc].handle THEN Terminate(@) ELSE @]
    /\ mainpc' = 0
    /\ UNCHANGED <<ffmpeg_thread, nexports, files, queue, notice, limit,
                   video, input, done, keeps, removed, pvars>>

\* _on_ffmpeg_finished without self._ffmpeg_thread = None
on_ffmpeg_finished_slot_kept ==
    /\ mainpc = 0
    /\ queue # <<>>
    /\ LET w == Head(queue)
       IN  /\ workers' = [workers EXCEPT ![w] =
                  [NoWorker EXCEPT !.pc = "collected"]]
           /\ notice' = Last(workers[w].events).msg
    /\ queue' = Tail(queue)
    /\ UNCHANGED <<ffmpeg_thread, nexports, files, limit, mainpc,
                   video, input, done, keeps, removed, pvars>>

\* MainWindow._on_ffmpeg_finished(success, message), for the oldest finished
\* signal pending: the slot is cleared, and with it the last reference to the
\* runner, and a dialog shows the message
on_ffmpeg_finished ==
    /\ mainpc = 0
    /\ queue # <<>>
    /\ LET w == Head(queue)
       IN  /\ workers' = [workers EXCEPT ![w] =
                  [NoWorker EXCEPT !.pc = "collected"]]
           /\ notice' = Last(workers[w].events).msg
    /\ queue' = Tail(queue)
    /\ ffmpeg_thread' = 0
    /\ UNCHANGED <<nexports, files, limit, mainpc,
                   video, input, done, keeps, removed, pvars>>

----------------------------------------------------------------------------
(* The trim panel: handlers of TrimPanel, run by the main thread. *)

\* TrimPanel.set_video(video) for the video at position i of the project:
\* the spin boxes span the whole video
set_video(i) ==
    [video |-> i, in_spin |-> 0, out_spin |-> Max(0, project[i].duration),
     op |-> "load", changed |-> FALSE]

\* the user sets the start spin box; _on_selection_changed clamps the end
SetIn(x) ==
    /\ trim.video # 0
    /\ x <= Max(0, project[trim.video].duration)
    /\ trim' = [trim EXCEPT !.in_spin = x,
                            !.out_spin = IF @ < x THEN x ELSE @,
                            !.op = "spin", !.changed = FALSE]
    /\ UNCHANGED <<project, notice, rvars_but_notice,
                   video, input, done, keeps, removed>>

\* the user sets the end spin box; _on_selection_changed clamps it
SetOut(x) ==
    /\ trim.video # 0
    /\ x <= Max(0, project[trim.video].duration)
    /\ trim' = [trim EXCEPT !.out_spin = IF x < trim.in_spin THEN trim.in_spin ELSE x,
                            !.op = "spin", !.changed = FALSE]
    /\ UNCHANGED <<project, notice, rvars_but_notice,
                   video, input, done, keeps, removed>>

\* TrimPanel._refresh_segment_list: normalize_segments, then total_removed
refresh_segment_list(v) == normalize_segments(normalize_segments(v))

\* the range appended, normalized and shown, whatever its ends
AddRange(v, start, end) ==
    refresh_segment_list(
        normalize_segments(
            [v EXCEPT !.remove_segments =
                 Append(@, [start |-> start, end |-> end])]))

\* _add_segment without the test of end <= start
add_segment_unchecked ==
    /\ trim.video # 0
    /\ project' = [project EXCEPT ![trim.video] =
                       AddRange(@, trim.in_spin, trim.out_spin)]
    /\ trim' = [trim EXCEPT !.op = "add", !.changed = TRUE]
    /\ UNCHANGED <<notice, rvars_but_notice, video, input, done, keeps, removed>>

\* TrimPanel._add_segment: a warning if the end is not after the start; else
\* the range is appended, the list normalized and shown, and segmentsChanged
\* emitted
add_segment ==
    /\ trim.video # 0
    /\ IF trim.out_spin <= trim.in_spin
       THEN /\ notice' = "invalid_range"
            /\ trim' = [trim EXCEPT !.op = "add", !.changed = FALSE]
            /\ UNCHANGED project
       ELSE /\ project' = [project EXCEPT ![trim.video] =
                               AddRange(@, trim.in_spin, trim.out_spin)]
            /\ trim' = [trim EXCEPT !.op = "add", !.changed = TRUE]
            /\ UNCHANGED notice
    /\ UNCHANGED <<rvars_but_notice, video, input, done, keeps, removed>>

\* self._video.remove_segments.pop(row)
Pop(s, row) == SubSeq(s, 1, row - 1) \o SubSeq(s, row + 1, Len(s))

\* for row in selected_rows (highest first): pop the rows that exist
RECURSIVE PopLoop(_, _)
PopLoop(s, rows) ==
    IF rows = {} THEN s
    ELSE LET row == CHOOSE r \in rows : \A q \in rows : q <= r
         IN  PopLoop(IF row \in 1..Len(s) THEN Pop(s, row) ELSE s, rows \ {row})

\* TrimPanel._remove_selected_segments, rows being the rows selected in the
\* list (counted from 1): nothing if none is selected; else the rows are
\* popped, the list normalized and shown, and segmentsChanged emitted
remove_selected_segments(rows) ==
    /\ trim.video # 0
    /\ IF rows = {}
       THEN /\ trim' = [trim EXCEPT !.op = "remove", !.changed = FALSE]
            /\ UNCHANGED project
       ELSE /\ project' = [project EXCEPT ![trim.video] =
                   refresh_segment_list(normalize_segments(
                       [@ EXCEPT !.remove_segments = PopLoop(@, rows)]))]
            /\ trim' = [trim EXCEPT !.op = "remove", !.changed = TRUE]
    /\ UNCHANGED <<notice, rvars_but_notice, video, input, done, keeps, removed>>

\* TrimPanel._clear_segments: the list is emptied and shown, and
\* segmentsChanged emitted
clear_segments ==
    /\ trim.video # 0
    /\ project' = [project EXCEPT ![trim.video] =
                       refresh_segment_list([@ EXCEPT !.remove_segments = <<>>])]
    /\ trim' = [trim EXCEPT !.op = "clear", !.changed = TRUE]
    /\ UNCHANGED <<notice, rvars_but_notice, video, input, done, keeps, removed>>

----------------------------------------------------------------------------
(* The runner threads.  A step is the code between two reads of state that  *)
(* another thread or the process writes.                                    *)

\* finished emitted without the return that follows it
FinishNoReturn(w, wr, ok, msg, step, code) ==
    /\ workers' = [workers EXCEPT ![w] = Emit(wr, Finished(ok, msg, step, code))]
    /\ queue' = Append(queue, w)

\* self.finished.emit(ok, msg): the runner's last act
Finish(w, wr, ok, msg, step, code) ==
    /\ workers' = [workers EXCEPT ![w] =
           [Emit(wr, Finished(ok, msg, step, code)) EXCEPT !.pc = "done"]]
    /\ queue' = Append(queue, w)

Step(w, wr) ==
    /\ workers' = [workers EXCEPT ![w] = wr]
    /\ UNCHANGED queue

\* MultiStepFFmpegWorker.run, entry: total_weight, acc = 0.0, first idx
MsBegin(w) ==
    /\ workers[w].kind = "multi" /\ workers[w].pc = "start"
    /\ Step(w, [workers[w] EXCEPT !.pc = "loop", !.acc = 0, !.idx = 1])
    /\ UNCHANGED <<ffmpeg_thread, nexports, files, notice, limit, mainpc,
                   video, input, done, keeps, removed, pvars>>

\* the head of the for loop: the next step and the test of self._cancel, or
\* the end of the steps, cleanup and finished(True)
MsLoop(w) ==
    /\ workers[w].kind = "multi" /\ workers[w].pc = "loop"
    /\ LET wr == workers[w]
       IN  IF wr.idx > Len(wr.steps)
           THEN /\ files' = DoCleanup(files, wr.cleanup)
                /\ Finish(w, wr, TRUE, "done", 0, 0)
           ELSE IF wr.cancel
           THEN /\ Finish(w, wr, FALSE, "cancelled", 0, 0)
                /\ UNCHANGED files
           ELSE /\ Step(w, [wr EXCEPT !.pc = "popen"])
                /\ UNCHANGED files
    /\ UNCHANGED <<ffmpeg_thread, nexports, notice, limit, mainpc,
                   video, input, done, keeps, removed, pvars>>

\* self.message.emit(...); proc = subprocess.Popen(args, ...)
MsPopen(w, outcome) ==
    /\ workers[w].kind = "multi" /\ workers[w].pc = "popen"
    /\ LET wr == Emit(workers[w], Message("cmd"))
       IN  CASE outcome = "ok" ->
                  /\ Step(w, [wr EXCEPT !.pc = "poll",
                                        !.launched = @ + 1,
                                        !.proc = Launched(wr.steps[wr.idx].out)])
                  /\ UNCHANGED files
             [] outcome = "notfound" ->
                  /\ files' = DoCleanup(files, wr.cleanup)
                  /\ Finish(w, wr, FALSE, "notfound", 0, 0)
             [] outcome = "oserror" ->
                  /\ files' = DoCleanup(files, wr.cleanup)
                  /\ Finish(w, wr, FALSE, "failed", 0, 0)
    /\ UNCHANGED <<ffmpeg_thread, nexports, notice, limit, mainpc,
                   video, input, done, keeps, removed, pvars>>

\* the head of the while loop: if self._cancel: terminate, finished, return
MsPoll(w) ==
    /\ workers[w].kind = "multi" /\ workers[w].pc = "poll"
    /\ LET wr == workers[w]
       IN  IF wr.cancel
           THEN Finish(w, [wr EXCEPT !.proc = Terminate(@)],
                       FALSE, "cancelled", 0, 0)
           ELSE Step(w, [wr EXCEPT !.pc = "readline"])
    /\ UNCHANGED <<ffmpeg_thread, nexports, files, notice, limit, mainpc,
                   video, input, done, keeps, removed, pvars>>

\* line = proc.stdout.readline() returns a line the process wrote
MsReadLine(w) ==
    /\ workers[w].kind = "multi" /\ workers[w].pc = "readline"
    /\ Step(w, [workers[w] EXCEPT !.pc = "poll"])
    /\ UNCHANGED <<ffmpeg_thread, nexports, files, notice, limit, mainpc,
                   video, input, done, keeps, removed, pvars>>

\* readline() returns "" and proc.poll() is not None: break
MsReadEof(w) ==
    /\ workers[w].kind = "multi" /\ workers[w].pc = "readline"
    /\ workers[w].proc.state = "exited"
    /\ Step(w, [workers[w] EXCEPT !.pc = "wait"])
    /\ UNCHANGED <<ffmpeg_thread, nexports, files, notice, limit, mainpc,
                   video, input, done, keeps, removed, pvars>>

\* the progress of a step computed from its own weight, not the sum so far
MsWaitStepWeightOnly(w) ==
    /\ workers[w].kind = "multi" /\ workers[w].pc = "wait"
    /\ LET wr == workers[w]
           code == wr.proc.code
           acc == wr.steps[wr.idx].weight
           ratio == ClampRatio(acc, TotalWeight(wr.steps))
       IN  IF code # 0
           THEN /\ files' = DoCleanup(files, wr.cleanup)
                /\ Finish(w, wr, FALSE, "step_failed", wr.idx, code)
           ELSE /\ Step(w, [Emit(wr, Progress(ratio[1], ratio[2]))
                               EXCEPT !.pc = "loop", !.acc = acc,
                                      !.idx = @ + 1])
                /\ UNCHANGED files
    /\ UNCHANGED <<ffmpeg_thread, nexports, notice, limit, mainpc,
                   video, input, done, keeps, removed, pvars>>

\* code = proc.wait(), then the failure exit or the progress of the step
MsWait(w) ==
    /\ workers[w].kind = "multi" /\ workers[w].pc = "wait"
    /\ LET wr == workers[w]
           code == wr.proc.code
           acc == wr.acc + wr.steps[wr.idx].weight
           ratio == ClampRatio(acc, TotalWeight(wr.steps))
       IN  IF code # 0
           THEN /\ files' = DoCleanup(files, wr.cleanup)
                /\ Finish(w, wr, FALSE, "step_failed", wr.idx, code)
           ELSE /\ Step(w, [Emit(wr, Progress(ratio[1], ratio[2]))
                               EXCEPT !.pc = "loop", !.acc = acc,
                                      !.idx = @ + 1])
                /\ UNCHANGED files
    /\ UNCHANGED <<ffmpeg_thread, nexports, notice, limit, mainpc,
                   video, input, done, keeps, removed, pvars>>

\* FFmpegWorker._execute up to Popen: the command message, then the launch;
\* FileNotFoundError and other exceptions are caught in run
FwPopen(w, outcome) ==
    /\ workers[w].kind = "fine" /\ workers[w].pc = "start"
    /\ LET wr == Emit(workers[w], Message("cmd"))
       IN  CASE outcome = "ok" ->
                  Step(w, [wr EXCEPT !.pc = "assign", !.launched = @ + 1,
                                     !.proc = Launched(Dest)])
             [] outcome = "notfound" -> Finish(w, wr, FALSE, "notfound", 0, 0)
             [] outcome = "oserror" -> Finish(w, wr, FALSE, "failed", 0, 0)
    /\ UNCHANGED <<ffmpeg_thread, nexports, files, notice, limit, mainpc,
                   video, input, done, keeps, removed, pvars>>

\* self._process = <the Popen object>
FwAssign(w) ==
    /\ workers[w].kind = "fine" /\ workers[w].pc = "assign"
    /\ Step(w, [workers[w] EXCEPT !.pc = "iter", !.handle = TRUE])
    /\ UNCHANGED <<ffmpeg_thread, nexports, files, notice, limit, mainpc,
                   video, input, done, keeps, removed, pvars>>

\* for line in self._process.stdout: the next line
FwNextLine(w, line) ==
    /\ workers[w].kind = "fine" /\ workers[w].pc = "iter"
    /\ workers[w].nread < MaxLines
    /\ Step(w, [workers[w] EXCEPT !.pc = "chk", !.nread = @ + 1, !.line = line])
    /\ UNCHANGED <<ffmpeg_thread, nexports, files, notice, limit, mainpc,
                   video, input, done, keeps, removed, pvars>>

\* the for loop ends when the process has closed its output
FwEof(w) ==
    /\ workers[w].kind = "fine" /\ workers[w].pc = "iter"
    /\ workers[w].proc.state = "exited"
    /\ Step(w, [workers[w] EXCEPT !.pc = "wait", !.line = NoStampLine])
    /\ UNCHANGED <<ffmpeg_thread, nexports, files, notice, limit, mainpc,
                   video, input, done, keeps, removed, pvars>>

\* the body of the for loop: the test of self._cancel_requested, else the
\* message and the progress parsed from the line
FwCheck(w) ==
    /\ workers[w].kind = "fine" /\ workers[w].pc = "chk"
    /\ LET wr == workers[w]
           duration == Max(1, wr.task.end_seconds - wr.task.start_seconds)
           parsed == ParseProgress(wr.line, duration)
           told == Emit(wr, Message("line"))
       IN  IF wr.cancel
           THEN Finish(w, wr, FALSE, "cancelled", 0, 0)
           ELSE Step(w, [(IF parsed.some
                          THEN Emit(told, Progress(parsed.ratio[1], parsed.ratio[2]))
                          ELSE told)
                         EXCEPT !.pc = "iter", !.line = NoStampLine])
    /\ UNCHANGED <<ffmpeg_thread, nexports, files, notice, limit, mainpc,
                   video, input, done, keeps, removed, pvars>>

\* return_code = self._process.wait(); if self._cancel_requested: ...
FwWait(w) ==
    /\ workers[w].kind = "fine" /\ workers[w].pc = "wait"
    /\ LET wr == workers[w]
       IN  IF wr.cancel
           THEN Finish(w, wr, FALSE, "cancelled", 0, 0)
           ELSE Step(w, [wr EXCEPT !.pc = "result", !.code = wr.proc.code])
    /\ UNCHANGED <<ffmpeg_thread, nexports, files, notice, limit, mainpc,
                   video, input, done, keeps, removed, pvars>>

\* if return_code == 0: progress 1.0, finished(True) else finished(False)
FwResult(w) ==
    /\ workers[w].kind = "fine" /\ workers[w].pc = "result"
    /\ LET wr == workers[w]
       IN  IF wr.code = 0
           THEN Finish(w, Emit(wr, Progress(1, 1)), TRUE, "done", 0, 0)
           ELSE Finish(w, wr, FALSE, "exit_code", 0, wr.code)
    /\ UNCHANGED <<ffmpeg_thread, nexports, files, notice, limit, mainpc,
                   video, input, done, keeps, removed, pvars>>

----------------------------------------------------------------------------
(* The external ffmpeg process of a runner. *)

\* the process creates (or truncates) its output file
ProcWrite(w) ==
    /\ workers[w].proc.state = "running"
    /\ workers[w].proc.out \notin files
    /\ files' = files \cup {workers[w].proc.out}
    /\ UNCHANGED <<workers, ffmpeg_thread, nexports, queue, notice, limit, mainpc,
                   video, input, done, keeps, removed, pvars>>

\* the process exits by itself with a code of its own
ProcExit(w, code) ==
    /\ workers[w].proc.state = "running"
    /\ workers' = [workers EXCEPT ![w].proc.state = "exited",
                                  ![w].proc.code = code]
    /\ UNCHANGED <<ffmpeg_thread, nexports, files, queue, notice, limit, mainpc,
                   video, input, done, keeps, removed, pvars>>

\* the process dies of the signal terminate() sent
ProcKilled(w) ==
    /\ workers[w].proc.state = "running"
    /\ workers[w].proc.term
    /\ workers' = [workers EXCEPT ![w].proc.state = "exited",
                                  ![w].proc.code = SigTerm]
    /\ UNCHANGED <<ffmpeg_thread, nexports, files, queue, notice, limit, mainpc,
                   video, input, done, keeps, removed, pvars>>

----------------------------------------------------------------------------
(* The specifications. *)

Exports == 1..MaxExports

NoVideo == [duration |-> 0, remove_segments |-> <<>>]

\* the program before the first export request, the user about to make n
RunnerInit(n) ==
    /\ workers = [e \in Exports |-> NoWorker]
    /\ ffmpeg_thread = 0
    /\ nexports = 0
    /\ files = {}
    /\ queue = <<>>
    /\ notice = "none"
    /\ limit = n
    /\ mainpc = 0

\* the values the user gives the spin boxes, and the length of a video
Marks == {k * TickSeconds : k \in 0..MaxTicks}
FullLength == MaxTicks * TickSeconds

\* (width, height) as probe_media_info returns them, 0 for None: ffprobe
\* reports both for a video stream, or there is no video stream
Resolutions == {<<0, 0>>, <<1920, 800>>, <<1080, 1920>>}

\* VideoItem(path=path, duration=dur, width=w, height=h)
NewVideo(dur, res) ==
    [duration |-> dur, width |-> res[1], height |-> res[2],
     remove_segments |-> <<>>]

\* the videos _add_videos may append: probed with a duration and any
\* resolution, or not probed at all (0, None, None)
ProbedVideos ==
    {NewVideo(FullLength, r) : r \in Resolutions} \cup {NewVideo(0, <<0, 0>>)}

\* the delete lists the trim panel leaves on a video: the lists of up to
\* MaxSegs ranges added with the spin boxes, normalized as _add_segment does
CutRanges == {r \in [start : Marks, end : Marks] : r.start < r.end}
CutLists == UNION {[1..n -> CutRanges] : n \in 0..MaxSegs}
EditedVideos ==
    {normalize_segments([v EXCEPT !.remove_segments = s]) :
        v \in ProbedVideos, s \in CutLists}

\* the projects of up to MaxVideos videos
Projects == UNION {[1..n -> EditedVideos] : n \in 0..MaxVideos}

\* the trim panel with no video loaded
NoTrim ==
    [video |-> 0, in_spin |-> 0, out_spin |-> 0, op |-> "none", changed |-> FALSE]

NoEdit ==
    /\ video = NoVideo
    /\ input = <<>>
    /\ done = {}
    /\ keeps = <<>>
    /\ removed = 0

\* the steps of a runner thread and of its process
Run(w) ==
    \/ MsBegin(w)
    \/ MsLoop(w)
    \/ \E o \in PopenOutcomes : MsPopen(w, o)
    \/ MsPoll(w)
    \/ MsReadLine(w)
    \/ MsReadEof(w)
    \/ MsWait(w)
    \/ \E o \in PopenOutcomes : FwPopen(w, o)
    \/ FwAssign(w)
    \/ FwEof(w)
    \/ FwCheck(w)
    \/ FwWait(w)
    \/ FwResult(w)
    \/ ProcWrite(w)
    \/ \E c \in ExitCodes : ProcExit(w, c)
    \/ ProcKilled(w)

(* Spec: one export, of either runner and of any input, from the request   *)
(* to the handling of its finished signal.  The project is one video, with  *)
(* one keep segment or (its duration unknown) with none.                    *)
RunProjects ==
    {<<NewVideo(FullLength, <<0, 0>>)>>, <<NewVideo(0, <<0, 0>>)>>}

Init ==
    /\ NoEdit
    /\ RunnerInit(1)
    /\ project \in RunProjects
    /\ trim = NoTrim

Next ==
    \/ start_export
    \/ \E ws \in AnyWeights : RunMultistepCall(ws)
    \/ \E t \in Tasks : run_ffmpeg(t)
    \/ cancel_trim
    \/ CancelTerminate
    \/ on_ffmpeg_finished
    \/ \E w \in Exports : Run(w)
    \/ \E w \in Exports, l \in Lines : FwNextLine(w, l)

Spec == Init /\ [][Next]_vars

(* OrchSpec: MaxExports export requests in a row, each of one fixed input. *)
OrchProject == <<NewVideo(FullLength, <<0, 0>>)>>
OrchTasks == {[start_seconds |-> 0, end_seconds |-> MaxStamp + 1]}

OrchInit ==
    /\ NoEdit
    /\ RunnerInit(MaxExports)
    /\ project = OrchProject
    /\ trim = NoTrim

OrchNext ==
    \/ start_export
    \/ \E t \in OrchTasks : run_ffmpeg(t)
    \/ cancel_trim
    \/ CancelTerminate
    \/ on_ffmpeg_finished
    \/ \E w \in Exports : Run(w)
    \/ \E w \in Exports : FwNextLine(w, NoStampLine)

OrchSpec == OrchInit /\ [][OrchNext]_vars

(* IntervalSpec: a video as constructed or edited, of any duration and any *)
(* list of ranges, and the operations of the interval model on it.         *)
IntervalInit ==
    /\ video \in [duration : Durations, remove_segments : RangeLists]
    /\ input = video.remove_segments
    /\ done = {}
    /\ keeps = <<>>
    /\ removed = 0
    /\ RunnerInit(0)
    /\ project = <<>>
    /\ trim = NoTrim

IntervalNext ==
    /\ \/ IvNormalize
       \/ IvKeepSegments
       \/ IvTotalRemoved
    /\ UNCHANGED <<rvars, pvars>>

IntervalSpec == IntervalInit /\ [][IntervalNext]_vars

(* PlanSpec: an export request on any project of up to MaxVideos videos,   *)
(* each as probed and with any delete list the trim panel can leave.       *)
PlanInit ==
    /\ NoEdit
    /\ RunnerInit(1)
    /\ project \in Projects
    /\ trim = NoTrim

PlanNext == start_export

PlanSpec == PlanInit /\ [][PlanNext]_vars

(* TrimSpec: one video, as probed, loaded into the trim panel, and the     *)
(* user at the spin boxes and the buttons of the panel.                    *)
TrimInit ==
    /\ NoEdit
    /\ RunnerInit(0)
    /\ project \in {<<v>> : v \in ProbedVideos}
    /\ trim = set_video(1)

TrimNext ==
    \/ \E x \in Marks : SetIn(x)
    \/ \E x \in Marks : SetOut(x)
    \/ add_segment
    \/ \E rows \in SUBSET (DOMAIN project[trim.video].remove_segments) :
          remove_selected_segments(rows)
    \/ clear_segments

TrimSpec == TrimInit /\ [][TrimNext]_vars

----------------------------------------------------------------------------
(* Properties of the interval model, checked under IntervalSpec. *)

\* a delete list in normal form for duration D
Normalized(s, D) ==
    /\ \A i \in DOMAIN s : 0 <= s[i].start /\ s[i].start < s[i].end /\ s[i].end <= D
    /\ \A i \in 1..(Len(s) - 1) :
          s[i].start < s[i + 1].start /\ s[i].end < s[i + 1].start

\* C5: for every list of delete ranges and every duration D > 0, after
\* normalize_segments the delete list is sorted by start, every range has
\* 0 <= start < end <= D, and consecutive ranges are strictly separated
\* (previous end < next start).
C5_NormalizedAfterNormalize ==
    ("normalize" \in done /\ video.duration > 0)
        => Normalized(video.remove_segments, video.duration)

\* an unsorted input with a negative start and an end beyond the duration,
\* normalized into two separated ranges
C5_Witness ==
    /\ done = {"normalize"}
    /\ video.duration > 0
    /\ Len(input) = 2
    /\ RangeLess(input[2], input[1])
    /\ input[2].start < 0
    /\ input[1].end > video.duration
    /\ Len(video.remove_segments) = 2

\* C6: for every delete-range list and every duration D >= 0, the sum of the
\* keep_segments durations plus total_removed equals D.
C6_KeptPlusRemovedIsDuration ==
    ({"keep", "removed"} \subseteq done /\ video.duration >= 0)
        => SumDurations(keeps) + removed = video.duration

\* overlapping input ranges, something kept and something removed
C6_Witness ==
    /\ {"keep", "removed"} \subseteq done
    /\ Len(input) = 2
    /\ input[1].start < input[2].start /\ input[2].start < input[1].end
    /\ removed > 0
    /\ SumDurations(keeps) > 0

\* the seconds [t, t+1) of [0, D) a range covers
Covers(r, t) == r.start <= t /\ t < r.end

\* C7: for every delete-range list and duration D > 0, keep_segments returns
\* ranges ordered by start, pairwise non-overlapping, each of positive
\* duration, disjoint from every normalized delete range, and every integer
\* second of [0, D) lies in exactly one keep segment or exactly one delete
\* range.
C7_KeepsPartitionTimeline ==
    ("keep" \in done /\ video.duration > 0) =>
        LET D == video.duration
            dels == video.remove_segments
        IN  /\ \A i \in DOMAIN keeps :
                  0 <= keeps[i].start /\ keeps[i].start < keeps[i].end
                  /\ keeps[i].end <= D
            /\ \A i \in 1..(Len(keeps) - 1) : keeps[i].end <= keeps[i + 1].start
            /\ \A i \in DOMAIN keeps : \A j \in DOMAIN dels :
                  keeps[i].end <= dels[j].start \/ dels[j].end <= keeps[i].start
            /\ \A t \in 0..(D - 1) :
                  Cardinality({i \in DOMAIN keeps : Covers(keeps[i], t)})
                  + Cardinality({j \in DOMAIN dels : Covers(dels[j], t)}) = 1

\* two delete ranges given out of order: one delete range in the middle of
\* the timeline and a keep segment on each side of it
C7_Witness ==
    /\ "keep" \in done
    /\ Len(input) = 2
    /\ RangeLess(input[2], input[1])
    /\ Len(video.remove_segments) = 1
    /\ Len(keeps) = 2

----------------------------------------------------------------------------
(* Properties of the runners, checked under Spec, and of the orchestrator,  *)
(* checked under OrchSpec.                                                  *)

\* the positions of the finished events in a runner's signals
FinishedAt(wr) == {i \in DOMAIN wr.events : wr.events[i].type = "finished"}

Cancelled(ev) == ev.type = "finished" /\ ~ev.ok /\ ev.msg = "cancelled"

ManifestFiles(wr) == {wr.cleanup[i] : i \in DOMAIN wr.cleanup}

\* C1: on every exit path of an export run by the multi-step runner (success,
\* a failing job, a missing executable, cancellation), by the time the
\* terminal finished event is emitted every file of the cleanup manifest has
\* been removed.
C1_ManifestRemovedAtFinished ==
    \A w \in Exports :
        (workers[w].kind = "multi" /\ workers[w].pc = "done")
            => ManifestFiles(workers[w]) \cap files = {}

\* C2: for both runners, once request_cancel() has been called before the
\* terminal event is emitted, the terminal event is finished(false,
\* cancelled) and never finished(true, ...), in every interleaving.  Stated
\* here is its second half, which the first implies: a runner whose
\* cancellation was requested before its terminal event does not emit
\* finished(true, ...).
C2_CancelNeverSucceeds ==
    [][\A w \in Exports :
          (workers[w].cancel /\ workers[w].pc # "done" /\ workers'[w].pc = "done")
              => ~Last(workers'[w].events).ok]_vars

\* C3: for every started runner and every outcome, the terminal finished
\* event is emitted exactly once, and no progress or message event is
\* emitted after it.
C3_FinishedOnceAndLast ==
    \A w \in Exports :
        LET wr == workers[w]
        IN  IF wr.pc = "done"
            THEN FinishedAt(wr) = {Len(wr.events)}
            ELSE FinishedAt(wr) = {}

\* a runner that has succeeded: a message, a progress and then finished
C3_Witness ==
    \E w \in Exports :
        /\ workers[w].pc = "done"
        /\ Len(workers[w].events) >= 3
        /\ Last(workers[w].events).ok
        /\ \E i \in DOMAIN workers[w].events : workers[w].events[i].type = "progress"

\* the runners started whose finished signal has not been handled
ActiveSet == {w \in Exports : workers[w].pc \notin {"none", "collected"}}

\* C4: at most one export worker is active at any time: an export request
\* made while a worker is registered as active is rejected with an 'already
\* running' notice, starts no second worker, and is not queued for later.
C4_SingleFlight ==
    [][/\ Cardinality(ActiveSet') <= 1
       /\ (ffmpeg_thread # 0 /\ nexports' # nexports)
             => /\ workers' = workers
                /\ ffmpeg_thread' = ffmpeg_thread
                /\ queue' = queue
                /\ notice' = "already_running"
       /\ \A e \in Exports :
             (e <= nexports /\ workers[e].pc = "none") => workers'[e].pc = "none"
      ]_vars

\* a second request was turned down while the first export is still active
C4_Witness ==
    /\ notice = "already_running"
    /\ nexports = 2
    /\ ffmpeg_thread = 1
    /\ workers[1].pc \notin {"none", "collected", "done"}
    /\ workers[2].pc = "none"

CancelledEarly(wr) ==
    /\ wr.cancel
    /\ wr.launched = 0
    /\ \/ wr.pc = "start"
       \/ wr.kind = "multi" /\ wr.pc = "loop"

\* C9: if request_cancel() is called on a runner before it starts (before any
\* job is launched), then starting it launches zero external processes and
\* yields the terminal event finished(false, cancelled); this holds for both
\* the multi-step runner and the fine-grained runner.
C9_CancelBeforeStart ==
    [][\A w \in Exports :
          (CancelledEarly(workers[w]) /\ workers'[w].pc # "collected")
              => /\ workers'[w].launched = 0
                 /\ \/ CancelledEarly(workers'[w])
                    \/ /\ workers'[w].pc = "done"
                       /\ Cancelled(Last(workers'[w].events))]_vars

\* a <= b for the fractions a and b
RatioLeq(a, b) == a[1] * b[2] <= b[1] * a[2]

\* the progress ratios a runner has emitted, in order
Ratios(wr) ==
    LET idxs == {i \in DOMAIN wr.events : wr.events[i].type = "progress"}
        nth(k) == CHOOSE i \in idxs : Cardinality({j \in idxs : j < i}) = k - 1
    IN  [k \in 1..Cardinality(idxs) |->
            <<wr.events[nth(k)].num, wr.events[nth(k)].den>>]

\* C10: within a single export, the sequence of progress ratios emitted by
\* the runner is non-decreasing and every ratio lies in [0, 1], for the
\* multi-step runner and for the fine-grained runner for any sequence of
\* output lines carrying time= stamps.
C10_ProgressMonotone ==
    \A w \in Exports :
        LET rs == Ratios(workers[w])
        IN  /\ \A k \in DOMAIN rs :
                  RatioLeq(<<0, 1>>, rs[k]) /\ RatioLeq(rs[k], <<1, 1>>)
            /\ \A k \in 1..(Len(rs) - 1) : RatioLeq(rs[k], rs[k + 1])

----------------------------------------------------------------------------
(* Progress of a cancelled export, checked under LiveSpec.                  *)

\* the steps a runner thread takes by itself once it is scheduled: every step
\* of run but the return of a read with a line, which is the process's doing
ThreadStep(w) ==
    \/ MsBegin(w)
    \/ MsLoop(w)
    \/ \E o \in PopenOutcomes : MsPopen(w, o)
    \/ MsPoll(w)
    \/ MsReadEof(w)
    \/ MsWait(w)
    \/ \E o \in PopenOutcomes : FwPopen(w, o)
    \/ FwAssign(w)
    \/ FwEof(w)
    \/ FwCheck(w)
    \/ FwWait(w)
    \/ FwResult(w)

\* what the threads' scheduling and the event loop guarantee: a thread that
\* can step does, a signalled process dies, the main thread finishes
\* request_cancel and handles queued signals.  Nothing makes the process
\* write a line or exit by itself, nor the user act.
Fairness ==
    /\ \A w \in Exports : WF_vars(ThreadStep(w))
    /\ \A w \in Exports : WF_vars(ProcKilled(w))
    /\ WF_vars(CancelTerminate)
    /\ WF_vars(on_ffmpeg_finished)

(* LiveSpec: Spec with the scheduling above. *)
LiveSpec == Init /\ [][Next]_vars /\ Fairness

\* request_cancel() has returned and the job of runner w is in flight
CancelInFlight(w) ==
    /\ workers[w].cancel
    /\ mainpc # w
    /\ workers[w].pc # "done"
    /\ workers[w].proc.state = "running"

\* C11: after request_cancel() is called while an external job is in flight,
\* the runner eventually terminates that process and emits the terminal
\* cancelled event, even if the process writes no further line and never
\* exits by itself.  Stated here is what that implies at the least, for the
\* multi-step runner: its thread comes to its end.
C11_CancelEventuallyEnds ==
    \A w \in Exports :
        (workers[w].kind = "multi" /\ CancelInFlight(w))
            ~> (workers[w].pc \in {"done", "collected"})

----------------------------------------------------------------------------
(* The destination of an export, checked under Spec. *)

\* C12: when an export ends in failure or cancellation (a failure or cancel
\* during the final concatenation job, which writes to the destination path,
\* included), no partial output file is left at the destination.  The export
\* has ended when the runner has emitted finished(false, ...) and no process
\* of it is running any more.
C12_NoPartialOutput ==
    \A w \in Exports :
        (workers[w].kind = "multi" /\ workers[w].pc = "done"
         /\ ~Last(workers[w].events).ok
         /\ workers[w].proc.state # "running")
            => Dest \notin files

----------------------------------------------------------------------------
(* The life cycle of the active-export slot, checked under OrchSpec. *)

\* C13: the orchestrator follows Idle -> Running -> {Succeeded, Failed,
\* Cancelled} -> Idle: the slot is set exactly while a worker is active, a
\* worker is started only from Idle, only the active worker's finished event
\* is queued, and handling it, whatever its outcome, clears the slot, so that
\* the next export request is accepted.
C13_SlotLifeCycle ==
    [][/\ ActiveSet' = (IF ffmpeg_thread' = 0 THEN {} ELSE {ffmpeg_thread'})
       /\ \A e \in Exports :
             (workers[e].pc = "none" /\ workers'[e].pc # "none")
                 => /\ ffmpeg_thread = 0
                    /\ ffmpeg_thread' = e
                    /\ workers'[e].pc = "start"
       /\ Len(queue') > Len(queue) => queue' = Append(queue, ffmpeg_thread)
       /\ Len(queue') < Len(queue)
             => /\ Head(queue) = ffmpeg_thread
                /\ workers[ffmpeg_thread].pc = "done"
                /\ ffmpeg_thread' = 0
       /\ (ffmpeg_thread = 0 /\ nexports' # nexports)
             => /\ ffmpeg_thread' = nexports'
                /\ workers'[nexports'].pc = "start"
      ]_vars

\* the first export was cancelled, its finished event handled, and the
\* second request has started a worker
C13_Witness ==
    /\ nexports = 2
    /\ workers[1].pc = "collected"
    /\ notice = "cancelled"
    /\ ffmpeg_thread = 2
    /\ workers[2].pc = "start"

----------------------------------------------------------------------------
(* Repeated calls of the interval model, checked under IntervalSpec. *)

\* C14: normalize_segments is idempotent: for every delete-range list and
\* duration, applying it again to a video it has been applied to leaves the
\* delete list as it is; and keep_segments (which normalizes first) called
\* again returns the list it returned before and leaves the delete list
\* unchanged.
C14_Idempotent ==
    /\ ({"normalize", "keep"} \cap done # {})
          => normalize_segments(video) = video
    /\ ("keep" \in done)
          => /\ keep_segments(video) = keeps
             /\ normalize_segments(video) = video

\* two overlapping ranges given out of order were merged by the first call,
\* and keep_segments has returned something
C14_Witness ==
    /\ {"normalize", "keep"} \subseteq done
    /\ Len(input) = 2
    /\ RangeLess(input[2], input[1])
    /\ input[1].start < input[2].end
    /\ Len(video.remove_segments) = 1
    /\ keeps # <<>>

----------------------------------------------------------------------------
(* The export plan, checked under PlanSpec: the steps and the cleanup list  *)
(* the worker of an export request was constructed with.                    *)

\* an export request has built a plan and started its worker
Planned == nexports = 1 /\ workers[1].kind = "multi"

PlanSteps == workers[1].steps

\* the positions of the extraction jobs in the plan
ExtractIdx == 1..(Len(PlanSteps) - 1)

\* C15: the job list built by an export request is one extraction job per
\* keep segment, ordered by video position in the project and then by
\* segment order within the video (a video with no keep segments contributes
\* none), each with weight equal to its segment's duration and a distinct
\* temp output file, followed by exactly one concatenation job of weight 1.0
\* as the last job, whose input list names the temp outputs in the order of
\* the extraction jobs.
C15_JobList ==
    Planned =>
        LET steps == PlanSteps
            n == Len(steps)
        IN  /\ n >= 1
            /\ steps[n].mode = "concat"
            /\ steps[n].weight = 1
            /\ steps[n].out = Dest
            /\ steps[n].list = [k \in ExtractIdx |-> steps[k].out]
            /\ \A i \in ExtractIdx :
                  /\ steps[i].mode \in {"copy", "transcode"}
                  /\ steps[i].video \in DOMAIN project
                  /\ steps[i].weight = steps[i].to - steps[i].ss
                  /\ steps[i].out \notin {Dest, ListFile(1)}
            /\ \A i \in ExtractIdx : \A j \in ExtractIdx :
                  i < j => /\ steps[i].video <= steps[j].video
                           /\ steps[i].out # steps[j].out
            /\ \A v \in DOMAIN project :
                  LET ks == keep_segments(project[v])
                      idxs == {i \in ExtractIdx : steps[i].video = v}
                  IN  /\ Cardinality(idxs) = Len(ks)
                      /\ \A i \in idxs :
                            LET k == Cardinality({j \in idxs : j <= i})
                            IN  /\ steps[i].ss = ks[k].start
                                /\ steps[i].to = ks[k].end

\* a project of two videos, the first with nothing to keep and the second
\* with two keep segments: two extraction jobs and the concatenation job
C15_Witness ==
    /\ Planned
    /\ Len(project) = 2
    /\ keep_segments(project[1]) = <<>>
    /\ Len(keep_segments(project[2])) = 2
    /\ Len(PlanSteps) = 3

\* C16: the extraction mode depends only on the number of videos in the
\* project: with exactly one video every extraction job uses stream copy;
\* with more than one every extraction job uses transcode mode, and all of
\* them carry the same target width, height and frame rate (30), whatever
\* the geometry of each source video.
C16_ModeByVideoCount ==
    Planned =>
        /\ Len(project) = 1
              => \A i \in ExtractIdx : PlanSteps[i].mode = "copy"
        /\ Len(project) > 1
              => /\ \A i \in ExtractIdx :
                        /\ PlanSteps[i].mode = "transcode"
                        /\ PlanSteps[i].fps = 30
                 /\ \A i \in ExtractIdx : \A j \in ExtractIdx :
                        /\ PlanSteps[i].w = PlanSteps[j].w
                        /\ PlanSteps[i].h = PlanSteps[j].h

\* two videos of different geometry, a transcode job for each
C16_Witness ==
    /\ Planned
    /\ Len(project) = 2
    /\ project[1].width # 0 /\ project[2].width # 0
    /\ project[1].width # project[2].width
    /\ \E i \in ExtractIdx : \E j \in ExtractIdx :
          /\ PlanSteps[i].video = 1 /\ PlanSteps[j].video = 2
          /\ PlanSteps[i].mode = "transcode" /\ PlanSteps[j].mode = "transcode"

\* the videos of the project that report a resolution
WithResolution == {v \in DOMAIN project : project[v].width # 0 /\ project[v].height # 0}

Greatest(S) == CHOOSE x \in S : \A y \in S : y <= x

SingleVideoTwoKeeps ==
    /\ Planned
    /\ Len(project) = 1
    /\ keep_segments(project[1]) =
           <<[start |-> 0, end |-> 10], [start |-> 20, end |-> 30]>>

\* the plan of that project but for its cleanup list: 2 extraction jobs in
\* stream-copy mode followed by 1 concat job, of weights [10, 10, 1.0]
TwoCopiesAndConcat ==
    /\ Len(PlanSteps) = 3
    /\ PlanSteps[1].mode = "copy" /\ PlanSteps[2].mode = "copy"
    /\ PlanSteps[3].mode = "concat"
    /\ [k \in 1..3 |-> PlanSteps[k].weight] = <<10, 10, 1>>

\* C18, as the claim states it: for a project with a single video whose keep
\* segments are [(0,10),(20,30)], the export plan has exactly 2 extraction
\* jobs in stream-copy mode followed by 1 concat job, the weights are
\* [10, 10, 1.0], and the temp manifest handed to the runner has 2 entries.
C18_PlanExample_Original ==
    SingleVideoTwoKeeps =>
        /\ TwoCopiesAndConcat
        /\ Len(workers[1].cleanup) = 2

\* C18, amended: ... and the temp manifest handed to the runner has 3
\* entries, the outputs of the 2 extraction jobs followed by the concat list
\* file.
C18_PlanExample ==
    SingleVideoTwoKeeps =>
        /\ TwoCopiesAndConcat
        /\ workers[1].cleanup =
               <<PlanSteps[1].out, PlanSteps[2].out, ListFile(1)>>
        /\ Cardinality({PlanSteps[1].out, PlanSteps[2].out, ListFile(1)}) = 3

\* the plan of that project has been built
C18_Witness ==
    /\ SingleVideoTwoKeeps
    /\ project[1].duration = 30
    /\ project[1].remove_segments = <<[start |-> 10, end |-> 20]>>
    /\ Len(workers[1].cleanup) = 3

----------------------------------------------------------------------------
(* A video of unknown duration, checked under IntervalSpec. *)

\* C19: for a video whose duration is <= 0, whatever its delete ranges,
\* normalize_segments empties the delete list, keep_segments returns the
\* empty list and total_removed returns 0.
C19_UnknownDuration ==
    video.duration <= 0 =>
        /\ "normalize" \in done => video.remove_segments = <<>>
        /\ "keep" \in done => keeps = <<>> /\ video.remove_segments = <<>>
        /\ "removed" \in done => removed = 0 /\ video.remove_segments = <<>>

\* a video of duration 0 given two delete ranges of positive length, after
\* the three operations
C19_Witness ==
    /\ video.duration = 0
    /\ Len(input) = 2
    /\ \A i \in DOMAIN input : input[i].start < input[i].end
    /\ done = {"normalize", "keep", "removed"}
    /\ video.remove_segments = <<>>
    /\ keeps = <<>>
    /\ removed = 0

----------------------------------------------------------------------------
(* The trim panel's add button, checked under TrimSpec. *)

\* C20: an attempt to add a delete range with end <= start is rejected at
\* the add operation: the video's delete list is left unchanged and no
\* segments-changed notification is emitted (a warning is shown); no such
\* range is therefore in a delete list, nor in any export plan.
C20_InvalidRangeRejected ==
    [][/\ (trim'.op = "add" /\ trim.out_spin <= trim.in_spin)
             => /\ project' = project
                /\ ~trim'.changed
                /\ notice' = "invalid_range"
       /\ \A v \in DOMAIN project' : \A i \in DOMAIN project'[v].remove_segments :
             project'[v].remove_segments[i].start
                 < project'[v].remove_segments[i].end
       /\ LET steps == BuildSteps(1, project')
          IN  \A k \in 1..(Len(steps) - 1) : steps[k].ss < steps[k].to
      ]_vars

\* an empty range was refused on a video that already has a delete range
C20_Witness ==
    /\ trim.op = "add"
    /\ trim.out_spin = trim.in_spin
    /\ notice = "invalid_range"
    /\ ~trim.changed
    /\ Len(project[1].remove_segments) = 1

\* C21: after any sequence of add-range, remove-selected-ranges and
\* clear-ranges operations on a video through the trim panel, the video's
\* delete list is in normalized form (sorted, strictly separated, within
\* [0, duration], all ranges of positive length) at the end of each
\* operation.
C21_ListNormalizedAfterEdit ==
    trim.op \in {"add", "remove", "clear"}
        => Normalized(project[trim.video].remove_segments,
                      project[trim.video].duration)

\* one of two delete ranges has just been removed
C21_Witness ==
    /\ trim.op = "remove"
    /\ trim.changed
    /\ Len(project[1].remove_segments) = 1
    /\ project[1].remove_segments[1].start > 0

----------------------------------------------------------------------------
(* The progress events of the multi-step runner, checked under Spec.        *)

\* the sum of the weights of the first k jobs
RECURSIVE PrefixWeight(_, _)
PrefixWeight(steps, k) ==
    IF k = 0 THEN 0 ELSE PrefixWeight(steps, k - 1) + steps[k].weight

\* (sum of the first k weights) / (total, or 1 if the total is 0), capped at 1
ExpectedRatio(steps, k) ==
    LET total == PrefixWeight(steps, Len(steps))
        den == IF total = 0 THEN 1 ELSE total
    IN  IF PrefixWeight(steps, k) >= den THEN <<1, 1>>
        ELSE <<PrefixWeight(steps, k), den>>

RatioEq(a, b) == a[1] * b[2] = b[1] * a[2]

Succeeded(wr) ==
    wr.events # <<>> /\ Last(wr.events).type = "finished" /\ Last(wr.events).ok

\* a step of runner w adds exactly one progress event when a job that has
\* exited with code 0 is waited for, and none otherwise
OneProgressPerJob(w) ==
    (workers[w].kind = "multi" /\ workers'[w].kind = "multi") =>
        LET n == Len(Ratios(workers[w]))
            m == Len(Ratios(workers'[w]))
        IN  /\ m # n => /\ m = n + 1
                        /\ workers[w].proc.state = "exited"
                        /\ workers[w].proc.code = 0
            /\ (/\ workers[w].pc = "wait" /\ workers'[w].pc # "wait"
                /\ workers[w].proc.code = 0) => m = n + 1

\* the k-th ratio is that of the first k weights
RatioOfPrefix(wr) ==
    \A k \in DOMAIN Ratios(wr) :
        k <= Len(wr.steps) /\ RatioEq(Ratios(wr)[k], ExpectedRatio(wr.steps, k))

\* the statement as written: whatever the weights, a successful run ends on
\* the ratio 1.0
C22_Progress_Original ==
    [][\A w \in Exports :
          /\ OneProgressPerJob(w)
          /\ workers'[w].kind = "multi" =>
               /\ RatioOfPrefix(workers'[w])
               /\ Succeeded(workers'[w]) =>
                    /\ Ratios(workers'[w]) # <<>>
                    /\ RatioEq(Last(Ratios(workers'[w])), <<1, 1>>)]_vars

\* C22: the multi-step runner emits exactly one progress event per job that
\* completes with exit code 0 and none while a job is running; the ratio
\* emitted after the k-th completed job equals (sum of the first k weights) /
\* (total weight, or 1.0 if the total is 0), capped at 1.0; on success the
\* last progress ratio emitted before finished(true) is 1.0 when the total
\* weight is positive, and 0.0 when it is 0.
C22_Progress ==
    [][\A w \in Exports :
          /\ OneProgressPerJob(w)
          /\ workers'[w].kind = "multi" =>
               /\ RatioOfPrefix(workers'[w])
               /\ Succeeded(workers'[w]) =>
                    /\ Ratios(workers'[w]) # <<>>
                    /\ RatioEq(Last(Ratios(workers'[w])),
                               IF PrefixWeight(workers'[w].steps,
                                               Len(workers'[w].steps)) > 0
                               THEN <<1, 1>> ELSE <<0, 1>>)]_vars

\* a run of two jobs of weight 1 each has succeeded after the ratios 1/2, 1
C22_Witness ==
    \E w \in Exports :
        /\ workers[w].kind = "multi"
        /\ Succeeded(workers[w])
        /\ Len(workers[w].steps) = 2
        /\ Ratios(workers[w]) = <<<<1, 2>>, <<1, 1>>>>

----------------------------------------------------------------------------
(* Export requests with nothing to export, checked under PlanSpec.          *)

\* C23: an export worker is never launched for a plan with zero extraction
\* jobs: when every video in the project has no keep segments (fully deleted
\* or of unknown duration), an export request does not start a runner with
\* only the concatenation job over an empty input list.
C23_NoExportWithoutExtraction ==
    \A w \in Exports :
        workers[w].kind = "multi" =>
            /\ \E i \in DOMAIN project : keep_segments(project[i]) # <<>>
            /\ Len(workers[w].steps) > 1

----------------------------------------------------------------------------
(* Files of a rejected export request, checked under OrchSpec.  The run     *)
(* button is disabled while an export runs and enabled again by the         *)
(* selection of a video (TrimPanel.set_video), so a request can be made     *)
(* during an export.                                                        *)

\* C24: an export request that is rejected because another export is running
\* has no side effects on the filesystem: it creates no temporary working
\* directory and no concat list file, so every temp artifact ever created
\* belongs to an export whose runner was started and is covered by that
\* runner's cleanup manifest.
C24_RejectedRequestNoFiles ==
    [][/\ (ffmpeg_thread # 0 /\ nexports' # nexports) => files' = files
       /\ \A f \in files' :
             f # Dest =>
                /\ workers'[f[1]].pc # "none"
                /\ workers'[f[1]].pc # "collected"
                      => f \in ManifestFiles(workers'[f[1]])
      ]_vars

----------------------------------------------------------------------------
(* The process of a cancelled runner, checked under Spec.                   *)

\* C25: in every interleaving of request_cancel() with a runner's execution,
\* once the runner has emitted the cancelled terminal event and
\* request_cancel() has returned, every external process the runner launched
\* has exited or has been sent terminate; a cancel request that arrives
\* before the process handle is assigned does not leave a launched process
\* running un-terminated after finished(false, cancelled).
C25_CancelledLeavesNoProcess ==
    \A w \in Exports :
        (/\ workers[w].pc = "done"
         /\ Cancelled(Last(workers[w].events))
         /\ mainpc # w)
            => \/ workers[w].proc.state # "running"
               \/ workers[w].proc.term

====
